---- MODULE Spec2Model ----
(***************************************************************************)
(* Model of async_btree/control.py: the behaviour-tree combinators         *)
(* sequence, fallback, selector, decision and repeat_until.                *)
(*                                                                         *)
(* A node is built once (sequence / fallback / selector / decision /       *)
(* repeat_until) and then evaluated.  Two evaluations of the built node    *)
(* may be in flight, interleaved at their await points; each one owns its  *)
(* locals (success, failure, results, last_result, result).  The nodes     *)
(* whose evaluations are long (repeat_until, parallele) are followed one   *)
(* evaluation at a time.                                                   *)
(*                                                                         *)
(* A child is described by what awaiting it does:                          *)
(*   "ok"     it returns a truthy value,                                   *)
(*   "fail"   it returns a falsy value (its own failure),                  *)
(*   "raise"  it raises an Exception.                                      *)
(* The children of repeat_until may answer differently on every call       *)
(* ("varies").                                                             *)
(*                                                                         *)
(* parallele is exported by the package and exercised by                   *)
(* tests/test_parallele.py; its evaluation is modelled from its contract:  *)
(* all children launched at once, completions in any order, cancellation   *)
(* of the stragglers once a threshold is reached.                          *)
(***************************************************************************)
EXTENDS Integers, Sequences, FiniteSets, TLC

VARIABLES
    name,               \* node built: "none", "rejected", "sequence", "fallback", "selector", "decision", "repeat_until"
    children,           \* sequence: the list of children, each by its outcome
    arg,                \* sequence: the succes_threshold argument of the call
    succes_threshold,   \* sequence: closed-over threshold (line 32)
    failure_threshold,  \* sequence: closed-over threshold (line 34)
    condition,          \* decision / repeat_until: the condition child
    success_tree,       \* decision: the success branch
    failure_tree,       \* decision: the failure branch, "None" when not given
    child,              \* repeat_until: the child
    pc,                 \* per evaluation: where the coroutine is suspended
    idx,                \* per evaluation: position of the for loop (children consumed)
    success,            \* per evaluation: local 'success'
    failure,            \* per evaluation: local 'failure'
    results,            \* per evaluation: local 'results'
    last_result,        \* per evaluation: local 'last_result'
    result,             \* per evaluation: local 'result' of _repeat_until
    ret,                \* per evaluation: what the call returned or raised
    started,            \* per evaluation: indices of the sequence children awaited so far
    trace,              \* per evaluation: decision / repeat_until children awaited so far
    answers,            \* per evaluation: what the children of repeat_until answered, in order
    tasks               \* per evaluation: parallele: the unit of work of each child

vars == <<name, children, arg, succes_threshold, failure_threshold, condition,
          success_tree, failure_tree, child, pc, idx, success, failure,
          results, last_result, result, ret, started, trace, answers, tasks>>

nodeVars == <<name, children, arg, succes_threshold, failure_threshold,
              condition, success_tree, failure_tree, child>>

seqLocals == <<idx, success, failure, results, last_result, started>>

\* ---------------------------------------------------------------- bounds
MaxChildren == 3
MaxIter == 3

\* ---------------------------------------------------------------- values
Evals == {"e1", "e2"}

Outcomes == {"ok", "fail", "raise"}

\* FAILURE of common.py: the generic falsy result, produced by no child.
FAILURE == [ok |-> FALSE, src |-> 0, exc |-> FALSE]

\* ControlFlowException(e): a falsy result carrying the error raised by child i.
ControlFlowException(i) == [ok |-> FALSE, src |-> i, exc |-> TRUE]

\* Placeholder of a local or return value not yet assigned.
None == [ok |-> FALSE, src |-> -1, exc |-> FALSE]

\* What child i returns when awaiting it returns: its own value, truthy or falsy.
child_value(i, o) == [ok |-> (o = "ok"), src |-> i, exc |-> FALSE]

\* 'await child()' with no handler around it: the error of the child comes out.
await_child(i, o) ==
    IF o = "raise"
      THEN [raised |-> TRUE, value |-> ControlFlowException(i)]
      ELSE [raised |-> FALSE, value |-> child_value(i, o)]

\* Variant of try_child without the handler of lines 45-46.
try_child_unhandled(i, o) == await_child(i, o)

\* try: last_result = await child()  except Exception as e: ControlFlowException(e)
try_child(i, o) ==
    IF o = "raise"
      THEN [raised |-> FALSE, value |-> ControlFlowException(i)]
      ELSE [raised |-> FALSE, value |-> child_value(i, o)]

\* What a call gave back: nothing yet, a list, a single value, or an exception.
Pending == [tag |-> "pending", list |-> <<>>, val |-> None]
ReturnList(l) == [tag |-> "list", list |-> l, val |-> None]
ReturnValue(v) == [tag |-> "value", list |-> <<>>, val |-> v]
Raise(v) == [tag |-> "raise", list |-> <<>>, val |-> v]

\* Python truthiness of a returned object: a list is truthy iff not empty.
bool(r) ==
    CASE r.tag = "list" -> Len(r.list) > 0
      [] r.tag = "value" -> r.val.ok
      [] OTHER -> FALSE

\* ---------------------------------------------------------------- Init
Init ==
    /\ name = "none"
    /\ children = <<>>
    /\ arg = [given |-> FALSE, value |-> 0]
    /\ succes_threshold = 0
    /\ failure_threshold = 0
    /\ condition = "None"
    /\ success_tree = "None"
    /\ failure_tree = "None"
    /\ child = "None"
    /\ pc = [e \in Evals |-> "idle"]
    /\ idx = [e \in Evals |-> 0]
    /\ success = [e \in Evals |-> 0]
    /\ failure = [e \in Evals |-> 0]
    /\ results = [e \in Evals |-> <<>>]
    /\ last_result = [e \in Evals |-> None]
    /\ result = [e \in Evals |-> None]
    /\ ret = [e \in Evals |-> Pending]
    /\ started = [e \in Evals |-> <<>>]
    /\ trace = [e \in Evals |-> <<>>]
    /\ answers = [e \in Evals |-> <<>>]
    /\ tasks = [e \in Evals |-> <<>>]

\* ---------------------------------------------------------------- sequence
\* line 32: 'succes_threshold if succes_threshold else len(children)'
threshold_of(a, n) == IF a.given /\ a.value # 0 THEN a.value ELSE n

\* line 33: the assertion of the constructor
assert_threshold(k, n) == 0 <= k /\ k <= n

\* Variant of failure_threshold_of as the docstring words it (line 22).
failure_threshold_docstring(k, n) == n - k

\* line 34
failure_threshold_of(k, n) == n - k + 1

\* Body of sequence(children, succes_threshold), labelled nm by node_metadata.
build_sequence(nm, ch, a) ==
    LET n == Len(ch)
        k == threshold_of(a, n)
    IN  /\ name = "none"
        /\ children' = ch
        /\ arg' = a
        /\ IF assert_threshold(k, n)
             THEN /\ name' = nm
                  /\ succes_threshold' = k
                  /\ failure_threshold' = failure_threshold_of(k, n)
             ELSE /\ name' = "rejected"
                  /\ UNCHANGED <<succes_threshold, failure_threshold>>
        /\ UNCHANGED <<condition, success_tree, failure_tree, child, pc, idx,
                       success, failure, results, last_result, result, ret,
                       started, trace, answers, tasks>>

ChildLists == UNION {[1..n -> Outcomes] : n \in 0..MaxChildren}

Thresholds(n) == {[given |-> FALSE, value |-> 0]}
                   \cup {[given |-> TRUE, value |-> k] : k \in (-1)..(n + 1)}

sequence ==
    \E ch \in ChildLists : \E a \in Thresholds(Len(ch)) :
        build_sequence("sequence", ch, a)

\* lines 80-82: fallback is sequence with succes_threshold = min(1, len(children))
min(a, b) == IF a <= b THEN a ELSE b

\* Variant of fallback_threshold that leaves the default of sequence in place.
fallback_threshold_all(n) == [given |-> TRUE, value |-> n]

fallback_threshold(n) == [given |-> TRUE, value |-> min(1, n)]

fallback ==
    \E ch \in ChildLists :
        build_sequence("fallback", ch, fallback_threshold(Len(ch)))

\* line 85: selector relabels fallback(children)
selector ==
    \E ch \in ChildLists :
        build_sequence("selector", ch, fallback_threshold(Len(ch)))

SeqNames == {"sequence", "fallback", "selector"}

\* Variant of append that forgets the result.
append_dropped(rs, r) == rs

\* Variant of append that inserts at the head of the list.
append_front(rs, r) == <<r>> \o rs

\* line 48
append(rs, r) == Append(rs, r)

\* line 54: 'return results'
return_results(rs, r) == ReturnList(rs)

\* Variant of return_last_result that returns the first failure recorded.
return_first_failure(rs, r) ==
    ReturnValue(rs[CHOOSE j \in 1..Len(rs) :
                     /\ ~rs[j].ok
                     /\ \A i \in 1..(j - 1) : rs[i].ok])

\* line 59: 'return last_result'
return_last_result(rs, r) == ReturnValue(r)

\* lines 37-40: the call of the node starts a coroutine with fresh locals
_sequence(e) ==
    /\ name \in SeqNames
    /\ pc[e] = "idle"
    /\ success' = [success EXCEPT ![e] = 0]
    /\ failure' = [failure EXCEPT ![e] = 0]
    /\ results' = [results EXCEPT ![e] = <<>>]
    /\ idx' = [idx EXCEPT ![e] = 0]
    /\ pc' = [pc EXCEPT ![e] = "loop"]
    /\ UNCHANGED <<nodeVars, last_result, result, ret, started, trace, answers, tasks>>

\* lines 42-44 and 61: the for loop takes the next child and awaits it, or,
\* the list being exhausted, falls through to 'return FAILURE'
_sequence_for(e) ==
    /\ name \in SeqNames
    /\ pc[e] = "loop"
    /\ IF idx[e] < Len(children)
         THEN /\ idx' = [idx EXCEPT ![e] = @ + 1]
              /\ started' = [started EXCEPT ![e] = Append(@, idx[e] + 1)]
              /\ pc' = [pc EXCEPT ![e] = "await"]
              /\ UNCHANGED ret
         ELSE /\ ret' = [ret EXCEPT ![e] = ReturnValue(FAILURE)]
              /\ pc' = [pc EXCEPT ![e] = "done"]
              /\ UNCHANGED <<idx, started>>
    /\ UNCHANGED <<nodeVars, success, failure, results, last_result, result,
                   trace, answers, tasks>>

\* Variant of _sequence_resume whose counters belong to the node, not to the call.
_sequence_resume_shared(e) ==
    /\ name \in SeqNames
    /\ pc[e] = "await"
    /\ LET i == idx[e]
           r == try_child(i, children[i])
           rs == append(results[e], r.value)
       IN  /\ last_result' = [last_result EXCEPT ![e] = r.value]
           /\ results' = [results EXCEPT ![e] = rs]
           /\ IF r.value.ok
                THEN /\ success' = [x \in Evals |-> success[x] + 1]
                     /\ UNCHANGED failure
                     /\ IF success[e] + 1 = succes_threshold
                          THEN /\ ret' = [ret EXCEPT ![e] = return_results(rs, r.value)]
                               /\ pc' = [pc EXCEPT ![e] = "done"]
                          ELSE /\ pc' = [pc EXCEPT ![e] = "loop"]
                               /\ UNCHANGED ret
                ELSE /\ failure' = [x \in Evals |-> failure[x] + 1]
                     /\ UNCHANGED success
                     /\ IF failure[e] + 1 = failure_threshold
                          THEN /\ ret' = [ret EXCEPT ![e] = return_last_result(rs, r.value)]
                               /\ pc' = [pc EXCEPT ![e] = "done"]
                          ELSE /\ pc' = [pc EXCEPT ![e] = "loop"]
                               /\ UNCHANGED ret
    /\ UNCHANGED <<nodeVars, idx, result, started, trace, answers, tasks>>

\* lines 43-59: the awaited child comes back; book-keeping and early return
_sequence_resume(e) ==
    /\ name \in SeqNames
    /\ pc[e] = "await"
    /\ LET i == idx[e]
           r == try_child(i, children[i])
           rs == append(results[e], r.value)
       IN  IF r.raised
             THEN /\ ret' = [ret EXCEPT ![e] = Raise(r.value)]
                  /\ pc' = [pc EXCEPT ![e] = "raised"]
                  /\ UNCHANGED <<success, failure, results, last_result>>
             ELSE /\ last_result' = [last_result EXCEPT ![e] = r.value]
                  /\ results' = [results EXCEPT ![e] = rs]
                  /\ IF r.value.ok
                       THEN /\ success' = [success EXCEPT ![e] = @ + 1]
                            /\ UNCHANGED failure
                            /\ IF success[e] + 1 = succes_threshold
                                 THEN /\ ret' = [ret EXCEPT ![e] = return_results(rs, r.value)]
                                      /\ pc' = [pc EXCEPT ![e] = "done"]
                                 ELSE /\ pc' = [pc EXCEPT ![e] = "loop"]
                                      /\ UNCHANGED ret
                       ELSE /\ failure' = [failure EXCEPT ![e] = @ + 1]
                            /\ UNCHANGED success
                            /\ IF failure[e] + 1 = failure_threshold
                                 THEN /\ ret' = [ret EXCEPT ![e] = return_last_result(rs, r.value)]
                                      /\ pc' = [pc EXCEPT ![e] = "done"]
                                 ELSE /\ pc' = [pc EXCEPT ![e] = "loop"]
                                      /\ UNCHANGED ret
    /\ UNCHANGED <<nodeVars, idx, result, started, trace, answers, tasks>>

\* ---------------------------------------------------------------- decision
BranchOutcomes == Outcomes \cup {"None"}

\* lines 91-109: the constructor only closes over its three arguments
decision ==
    /\ name = "none"
    /\ \E c \in Outcomes, s \in Outcomes, f \in BranchOutcomes :
         /\ condition' = c
         /\ success_tree' = s
         /\ failure_tree' = f
    /\ name' = "decision"
    /\ UNCHANGED <<children, arg, succes_threshold, failure_threshold, child,
                   pc, idx, success, failure, results, last_result, result,
                   ret, started, trace, answers, tasks>>

\* lines 104-105: the call starts by awaiting condition()
_decision(e) ==
    /\ name = "decision"
    /\ pc[e] = "idle"
    /\ pc' = [pc EXCEPT ![e] = "condition"]
    /\ trace' = [trace EXCEPT ![e] = Append(@, "condition")]
    /\ UNCHANGED <<nodeVars, seqLocals, result, ret, answers, tasks>>

\* lines 105-107: condition() comes back; one branch is awaited, or FAILURE returned
_decision_condition(e) ==
    /\ name = "decision"
    /\ pc[e] = "condition"
    /\ LET r == await_child(1, condition)
       IN  IF r.raised
             THEN /\ ret' = [ret EXCEPT ![e] = Raise(r.value)]
                  /\ pc' = [pc EXCEPT ![e] = "raised"]
                  /\ UNCHANGED trace
             ELSE IF r.value.ok
               THEN /\ pc' = [pc EXCEPT ![e] = "success_tree"]
                    /\ trace' = [trace EXCEPT ![e] = Append(@, "success_tree")]
                    /\ UNCHANGED ret
               ELSE IF failure_tree # "None"
                 THEN /\ pc' = [pc EXCEPT ![e] = "failure_tree"]
                      /\ trace' = [trace EXCEPT ![e] = Append(@, "failure_tree")]
                      /\ UNCHANGED ret
                 ELSE /\ ret' = [ret EXCEPT ![e] = ReturnValue(FAILURE)]
                      /\ pc' = [pc EXCEPT ![e] = "done"]
                      /\ UNCHANGED trace
    /\ UNCHANGED <<nodeVars, seqLocals, result, answers, tasks>>

\* lines 106-107: the awaited branch comes back and its result is returned as is
_decision_branch(e) ==
    /\ name = "decision"
    /\ pc[e] \in {"success_tree", "failure_tree"}
    /\ LET r == IF pc[e] = "success_tree"
                  THEN await_child(2, success_tree)
                  ELSE await_child(3, failure_tree)
       IN  IF r.raised
             THEN /\ ret' = [ret EXCEPT ![e] = Raise(r.value)]
                  /\ pc' = [pc EXCEPT ![e] = "raised"]
             ELSE /\ ret' = [ret EXCEPT ![e] = ReturnValue(r.value)]
                  /\ pc' = [pc EXCEPT ![e] = "done"]
    /\ UNCHANGED <<nodeVars, seqLocals, result, trace, answers, tasks>>

\* ---------------------------------------------------------------- repeat_until
\* is_success(child=condition) of decorator.py: the condition as a boolean.
\* What it does with an error of the condition is not fixed: it comes out,
\* or it counts as a failed check.
is_success(o) ==
    CASE o = "ok" -> {"true"}
      [] o = "fail" -> {"false"}
      [] OTHER -> {"raise", "false"}

\* What a child of repeat_until may answer on one call.  A condition that
\* "varies" succeeds at most MaxIter times in one evaluation: it is a condition
\* that eventually reports Failure (or raises); the condition "ok" always
\* succeeds, and its evaluations are followed for MaxIter iterations.
Answers(c) == IF c = "varies" THEN Outcomes ELSE {c}

\* lines 112-134: the constructor only closes over condition and child
repeat_until ==
    /\ name = "none"
    /\ \E c \in {"varies", "ok"} : condition' = c
    /\ child' = "varies"
    /\ name' = "repeat_until"
    /\ UNCHANGED <<children, arg, succes_threshold, failure_threshold,
                   success_tree, failure_tree, pc, idx, success, failure,
                   results, last_result, result, ret, started, trace, answers, tasks>>

\* No other evaluation of the node has been started.
OnlyCall(e) == \A x \in Evals \ {e} : pc[x] = "idle"

\* Variant of _repeat_until that runs the child before the first check.
_repeat_until_do_while(e) ==
    /\ name = "repeat_until"
    /\ pc[e] = "idle"
    /\ OnlyCall(e)
    /\ result' = [result EXCEPT ![e] = FAILURE]
    /\ pc' = [pc EXCEPT ![e] = "running-child"]
    /\ trace' = [trace EXCEPT ![e] = Append(@, "child")]
    /\ UNCHANGED <<nodeVars, seqLocals, ret, answers, tasks>>

\* lines 122-125: result = FAILURE, then the first check of the condition
_repeat_until(e) ==
    /\ name = "repeat_until"
    /\ pc[e] = "idle"
    /\ OnlyCall(e)
    /\ result' = [result EXCEPT ![e] = FAILURE]
    /\ pc' = [pc EXCEPT ![e] = "checking-condition"]
    /\ trace' = [trace EXCEPT ![e] = Append(@, "condition")]
    /\ UNCHANGED <<nodeVars, seqLocals, ret, answers, tasks>>

\* Variant of _repeat_until_while that gives up after MaxIter iterations.
_repeat_until_while_bounded(e) ==
    /\ name = "repeat_until"
    /\ pc[e] = "checking-condition"
    /\ \E o \in Answers(condition) : \E b \in is_success(o) :
         /\ answers' = [answers EXCEPT ![e] = Append(@, <<"condition", o>>)]
         /\ IF b = "true" /\ idx[e] < MaxIter
              THEN /\ pc' = [pc EXCEPT ![e] = "running-child"]
                   /\ trace' = [trace EXCEPT ![e] = Append(@, "child")]
                   /\ UNCHANGED ret
              ELSE /\ ret' = [ret EXCEPT ![e] = ReturnValue(result[e])]
                   /\ pc' = [pc EXCEPT ![e] = "done"]
                   /\ UNCHANGED trace
    /\ UNCHANGED <<nodeVars, seqLocals, result, tasks>>

\* lines 125-127 and 132: the check comes back; the child is awaited, or
\* the loop ends and result is returned
_repeat_until_while(e) ==
    /\ name = "repeat_until"
    /\ pc[e] = "checking-condition"
    /\ \E o \in Answers(condition) : \E b \in is_success(o) :
         /\ answers' = [answers EXCEPT ![e] = Append(@, <<"condition", o>>)]
         /\ CASE b = "raise" ->
                   /\ ret' = [ret EXCEPT ![e] = Raise(ControlFlowException(0))]
                   /\ pc' = [pc EXCEPT ![e] = "raised"]
                   /\ UNCHANGED trace
              [] b = "true" ->
                   /\ idx[e] < MaxIter
                   /\ pc' = [pc EXCEPT ![e] = "running-child"]
                   /\ trace' = [trace EXCEPT ![e] = Append(@, "child")]
                   /\ UNCHANGED ret
              [] OTHER ->
                   /\ ret' = [ret EXCEPT ![e] = ReturnValue(result[e])]
                   /\ pc' = [pc EXCEPT ![e] = "done"]
                   /\ UNCHANGED trace
    /\ UNCHANGED <<nodeVars, seqLocals, result, tasks>>

\* Variant of _repeat_until_body whose handler keeps the previous result.
_repeat_until_body_keeps(e) ==
    /\ name = "repeat_until"
    /\ pc[e] = "running-child"
    /\ \E o \in Answers(child) :
         /\ result' = [result EXCEPT ![e] =
                         IF o = "raise" THEN @ ELSE child_value(idx[e] + 1, o)]
         /\ answers' = [answers EXCEPT ![e] = Append(@, <<"child", o>>)]
         /\ idx' = [idx EXCEPT ![e] = @ + 1]
         /\ pc' = [pc EXCEPT ![e] = "checking-condition"]
         /\ trace' = [trace EXCEPT ![e] = Append(@, "condition")]
         /\ UNCHANGED ret
    /\ UNCHANGED <<nodeVars, success, failure, results, last_result, started, tasks>>

\* lines 126-130 and 125: the child comes back, result is overwritten and
\* the condition is checked again
_repeat_until_body(e) ==
    /\ name = "repeat_until"
    /\ pc[e] = "running-child"
    /\ \E o \in Answers(child) :
         LET r == try_child(idx[e] + 1, o)
         IN  IF r.raised
               THEN /\ ret' = [ret EXCEPT ![e] = Raise(r.value)]
                    /\ pc' = [pc EXCEPT ![e] = "raised"]
                    /\ UNCHANGED <<result, idx, trace, answers, tasks>>
               ELSE /\ result' = [result EXCEPT ![e] = r.value]
                    /\ answers' = [answers EXCEPT ![e] = Append(@, <<"child", o>>)]
                    /\ idx' = [idx EXCEPT ![e] = @ + 1]
                    /\ pc' = [pc EXCEPT ![e] = "checking-condition"]
                    /\ trace' = [trace EXCEPT ![e] = Append(@, "condition")]
                    /\ UNCHANGED ret
    /\ UNCHANGED <<nodeVars, success, failure, results, last_result, started, tasks>>

\* ---------------------------------------------------------------- parallele
\* parallele(children, succes_threshold): thresholds as for sequence, the
\* default being len(children); at least one child, threshold at least 1.
ParallelThresholds(n) == {[given |-> FALSE, value |-> 0]}
                           \cup {[given |-> TRUE, value |-> k] : k \in 1..n}

parallele ==
    /\ name = "none"
    /\ \E ch \in ChildLists : \E a \in ParallelThresholds(Len(ch)) :
         LET n == Len(ch)
             k == IF a.given THEN a.value ELSE n
         IN  /\ n >= 1
             /\ children' = ch
             /\ arg' = a
             /\ succes_threshold' = k
             /\ failure_threshold' = n - k + 1
    /\ name' = "parallele"
    /\ UNCHANGED <<condition, success_tree, failure_tree, child, pc, idx,
                   success, failure, results, last_result, result, ret,
                   started, trace, answers, tasks>>

\* Variant of cancel that also marks a finished unit of work as cancelled.
cancel_any(st) == "cancelled"

\* Cancelling a unit of work: only a running one is affected.
cancel(st) == IF st = "running" THEN "cancelled" ELSE st

\* Variant of record that stores results in completion order.
record_in_completion_order(buf, i, r) ==
    LET free == CHOOSE j \in 1..Len(buf) :
                    buf[j] = None /\ \A h \in 1..(j - 1) : buf[h] # None
    IN  [buf EXCEPT ![free] = r]

\* The result of child i is stored in slot i of the buffer.
record(buf, i, r) == [buf EXCEPT ![i] = r]

\* The call launches every child at once, with an empty buffer of n slots.
_parallele(e) ==
    /\ name = "parallele"
    /\ pc[e] = "idle"
    /\ OnlyCall(e)
    /\ success' = [success EXCEPT ![e] = 0]
    /\ failure' = [failure EXCEPT ![e] = 0]
    /\ results' = [results EXCEPT ![e] = [i \in 1..Len(children) |-> None]]
    /\ tasks' = [tasks EXCEPT ![e] = [i \in 1..Len(children) |-> "running"]]
    /\ started' = [started EXCEPT ![e] = [i \in 1..Len(children) |-> i]]
    /\ pc' = [pc EXCEPT ![e] = "gather"]
    /\ UNCHANGED <<nodeVars, idx, last_result, result, ret, trace, answers>>

\* One running child completes, in any order; its result (an error being
\* captured as a Failure) is stored at its own index and counted; once a
\* threshold is reached every unit of work is cancelled and the call returns
\* without waiting for them.
_parallele_complete(e) ==
    /\ name = "parallele"
    /\ pc[e] = "gather"
    /\ \E i \in 1..Len(children) :
         /\ tasks[e][i] = "running"
         /\ LET r == try_child(i, children[i]).value
                buf == record(results[e], i, r)
                finished == [tasks[e] EXCEPT ![i] = "finished"]
                decided == IF r.ok THEN success[e] + 1 = succes_threshold
                           ELSE failure[e] + 1 = failure_threshold
            IN  /\ last_result' = [last_result EXCEPT ![e] = r]
                /\ results' = [results EXCEPT ![e] = buf]
                /\ success' = [success EXCEPT ![e] = IF r.ok THEN @ + 1 ELSE @]
                /\ failure' = [failure EXCEPT ![e] = IF r.ok THEN @ ELSE @ + 1]
                /\ IF decided
                     THEN /\ tasks' = [tasks EXCEPT ![e] =
                                          [j \in 1..Len(children) |-> cancel(finished[j])]]
                          /\ ret' = [ret EXCEPT ![e] =
                                        IF r.ok THEN ReturnList(buf) ELSE ReturnValue(r)]
                          /\ pc' = [pc EXCEPT ![e] = "done"]
                     ELSE /\ tasks' = [tasks EXCEPT ![e] = finished]
                          /\ UNCHANGED <<ret, pc>>
    /\ UNCHANGED <<nodeVars, idx, result, started, trace, answers>>

\* ---------------------------------------------------------------- system
Next ==
    \/ sequence
    \/ fallback
    \/ selector
    \/ decision
    \/ repeat_until
    \/ parallele
    \/ \E e \in Evals : _sequence(e)
    \/ \E e \in Evals : _sequence_for(e)
    \/ \E e \in Evals : _sequence_resume(e)
    \/ \E e \in Evals : _decision(e)
    \/ \E e \in Evals : _decision_condition(e)
    \/ \E e \in Evals : _decision_branch(e)
    \/ \E e \in Evals : _repeat_until(e)
    \/ \E e \in Evals : _repeat_until_while(e)
    \/ \E e \in Evals : _repeat_until_body(e)
    \/ \E e \in Evals : _parallele(e)
    \/ \E e \in Evals : _parallele_complete(e)

Spec == Init /\ [][Next]_vars

\* Every awaited condition and child of repeat_until eventually comes back.
FairSpec ==
    /\ Spec
    /\ \A e \in Evals : WF_vars(_repeat_until_while(e))
    /\ \A e \in Evals : WF_vars(_repeat_until_body(e))

\* ---------------------------------------------------------------- properties
Range(q) == {q[i] : i \in 1..Len(q)}

N == Len(children)

\* Children that report Success / Failure when awaited (an error is a Failure).
Succeeding == {i \in 1..N : children[i] = "ok"}
Failing == {i \in 1..N : children[i] # "ok"}

\* Children among the first j that report Failure.
FailingUpTo(j) == {i \in 1..j : children[i] # "ok"}

\* The Result child i hands to the sequence loop.
ResultOf(i) == IF children[i] = "raise" THEN ControlFlowException(i)
               ELSE child_value(i, children[i])

Returned(e) == pc[e] = "done"
Ended(e) == pc[e] \in {"done", "raised"}

IsSuccess(e) == Returned(e) /\ bool(ret[e])
IsFailure(e) == Returned(e) /\ ~bool(ret[e])

\* C1: sequence(children, k) with k in [0, n] returns a Success iff at least
\* k children report Success, and a Failure iff more than n - k report
\* Failure; exactly one of the two.
C1_ThresholdSemantics ==
    \A e \in Evals :
        (name = "sequence" /\ arg.given /\ arg.value \in 0..N /\ Ended(e)) =>
            /\ IsSuccess(e) <=> Cardinality(Succeeding) >= arg.value
            /\ IsFailure(e) <=> Cardinality(Failing) > N - arg.value
            /\ IsSuccess(e) # IsFailure(e)

\* C2: sequence(children) with the default threshold is AND: Success iff
\* every child succeeds; the first failing child's Failure is returned and
\* no child after it is ever started.
C2_SequenceIsAnd ==
    \A e \in Evals :
        (name = "sequence" /\ ~arg.given) =>
            /\ \A j \in Range(started[e]) : FailingUpTo(j - 1) = {}
            /\ Ended(e) =>
                 /\ IsSuccess(e) <=> Failing = {}
                 /\ Failing # {} =>
                      \E f \in Failing :
                          /\ FailingUpTo(f - 1) = {}
                          /\ ret[e] = ReturnValue(ResultOf(f))
                          /\ started[e] = [i \in 1..f |-> i]

\* C3: fallback(children) is OR: Success iff at least one child succeeds,
\* Failure only if every child fails, and no child placed after the first
\* succeeding one is ever started.
C3_FallbackIsOr ==
    \A e \in Evals :
        (name = "fallback") =>
            /\ \A j \in Range(started[e]) : \A i \in 1..(j - 1) : children[i] # "ok"
            /\ Ended(e) =>
                 /\ IsSuccess(e) <=> Succeeding # {}
                 /\ IsFailure(e) => Failing = 1..N
                 /\ IsSuccess(e) \/ IsFailure(e)

\* C3 witness: a fallback returned Success after a failing first child,
\* leaving a later child unstarted.
C3_Witness ==
    \E e \in Evals :
        /\ name = "fallback"
        /\ IsSuccess(e)
        /\ N = 3
        /\ children[1] # "ok"
        /\ started[e] = <<1, 2>>

\* C4: with no children the derived threshold is 0 and sequence([]) /
\* fallback([]) evaluate to a Success, never a Failure.
C4_EmptyIsSuccess ==
    \A e \in Evals :
        (name \in {"sequence", "fallback"} /\ N = 0) =>
            /\ succes_threshold = 0
            /\ Ended(e) => IsSuccess(e)
\* C5: in a sequence evaluation a child that raises is recorded as a Failure
\* carrying its error and counted as one failure; the call never raises; the
\* next sibling is still started unless that failure reached failure_threshold.
C5_ErrorIsFailure ==
    \A e \in Evals :
        (name \in SeqNames) =>
            /\ pc[e] # "raised"
            /\ ret[e].tag # "raise"
            /\ \A j \in 1..Len(results[e]) :
                 children[j] = "raise" => results[e][j] = ControlFlowException(j)
            /\ failure[e] = Cardinality(FailingUpTo(Len(results[e])))
            /\ Returned(e) =>
                 \A j \in 1..Len(results[e]) :
                     (/\ children[j] = "raise"
                      /\ j < N
                      /\ Cardinality(FailingUpTo(j)) < failure_threshold)
                         => (j + 1) \in Range(started[e])

\* C5 witness: a sequence returned after a child raised and the sibling
\* after it was evaluated.
C5_Witness ==
    \E e \in Evals :
        /\ name = "sequence"
        /\ Returned(e)
        /\ \E j \in 1..Len(results[e]) :
             /\ children[j] = "raise"
             /\ results[e][j] = ControlFlowException(j)
             /\ (j + 1) \in Range(started[e])

\* C6: no evaluation of a combinator node (sequence, fallback, decision,
\* repeat_until) ends by raising; it always completes with a Result.
C6_NeverRaises ==
    \A e \in Evals : pc[e] # "raised" /\ ret[e].tag # "raise"

\* C7: when the success count reaches succes_threshold the returned value is
\* the list of the results of the children evaluated so far, in list order, up
\* to and including the triggering child, whose result is a Success.
C7_SuccessReturnsResults ==
    \A e \in Evals :
        (name \in SeqNames /\ Returned(e) /\ success[e] = succes_threshold /\ N >= 1) =>
            /\ ret[e].tag = "list"
            /\ Len(ret[e].list) = idx[e]
            /\ started[e] = [i \in 1..idx[e] |-> i]
            /\ \A j \in 1..idx[e] : ret[e].list[j] = ResultOf(j)
            /\ ret[e].list[idx[e]].ok
            /\ ret[e].list[idx[e]] = last_result[e]

\* C7 witness: a sequence returned a list of three results whose first is a
\* Failure and whose last is the triggering Success.
C7_Witness ==
    \E e \in Evals :
        /\ name = "sequence"
        /\ Returned(e)
        /\ ret[e].tag = "list"
        /\ Len(ret[e].list) = 3
        /\ ~ret[e].list[1].ok
        /\ ret[e].list[3].ok

\* C8: when the failure count reaches failure_threshold the returned value is
\* the triggering (last evaluated) child's own Failure, not the list and not
\* an earlier child's failure.
C8_FailureReturnsLast ==
    \A e \in Evals :
        (name \in SeqNames /\ Returned(e) /\ failure[e] = failure_threshold) =>
            /\ ret[e].tag = "value"
            /\ idx[e] \in 1..N
            /\ started[e] = [i \in 1..idx[e] |-> i]
            /\ ret[e].val = ResultOf(idx[e])
            /\ ~ret[e].val.ok

\* C8 witness: a sequence returned the Failure of its last evaluated child
\* after an earlier child had failed too.
C8_Witness ==
    \E e \in Evals :
        /\ name = "sequence"
        /\ Returned(e)
        /\ failure[e] = failure_threshold
        /\ failure_threshold >= 2
        /\ ret[e].val.src = idx[e]
        /\ \E j \in 1..(idx[e] - 1) : ~results[e][j].ok

C10_ThresholdEnforced ==
    (name \in SeqNames \cup {"rejected"} /\ arg.given) =>
        IF arg.value \in 0..N
          THEN name \in SeqNames /\ succes_threshold = arg.value
          ELSE /\ name = "rejected"
               /\ \A e \in Evals : pc[e] = "idle" /\ started[e] = <<>>
\* Number of entries of the log q equal to x.
Count(q, x) == Cardinality({i \in 1..Len(q) : q[i] = x})

\* The Result a child of decision hands over: an error is a Failure carrying it.
BranchResult(i, o) == IF o = "raise" THEN ControlFlowException(i)
                      ELSE child_value(i, o)

\* C11: every evaluation of a decision node evaluates the condition exactly
\* once and first, then takes exactly one branch: success_tree (and returns
\* its Result) if the condition's result is a Success, otherwise failure_tree
\* (and returns its Result) or, without failure_tree, the generic Failure;
\* the unchosen branch is never evaluated.
C11_DecisionOneBranch ==
    \A e \in Evals :
        (name = "decision" /\ pc[e] # "idle") =>
            /\ trace[e][1] = "condition"
            /\ Count(trace[e], "condition") = 1
            /\ condition = "ok" => Count(trace[e], "failure_tree") = 0
            /\ condition # "ok" => Count(trace[e], "success_tree") = 0
            /\ Ended(e) =>
                 IF condition = "ok"
                   THEN /\ trace[e] = <<"condition", "success_tree">>
                        /\ ret[e] = ReturnValue(BranchResult(2, success_tree))
                   ELSE IF failure_tree # "None"
                     THEN /\ trace[e] = <<"condition", "failure_tree">>
                          /\ ret[e] = ReturnValue(BranchResult(3, failure_tree))
                     ELSE /\ trace[e] = <<"condition">>
                          /\ ret[e] = ReturnValue(FAILURE)
IsCondition(x) == x[1] = "condition"
IsChild(x) == x[1] = "child"

\* What the condition / the child of repeat_until answered, call after call.
ConditionAnswers(e) == SelectSeq(answers[e], IsCondition)
ChildAnswers(e) == SelectSeq(answers[e], IsChild)

\* The condition reported Success on every check but the last, where it
\* reported Failure.
SucceededThenFailed(e) ==
    LET c == ConditionAnswers(e)
    IN  /\ Len(c) >= 1
        /\ c[Len(c)][2] = "fail"
        /\ \A i \in 1..(Len(c) - 1) : c[i][2] = "ok"

\* The Result of the j-th evaluation of the child of repeat_until.
ChildResult(e, j) ==
    LET o == ChildAnswers(e)[j][2]
    IN  IF o = "raise" THEN ControlFlowException(j) ELSE child_value(j, o)

C13_RepeatUntilTruthy ==
    \A e \in Evals :
        (name = "repeat_until" /\ Len(ConditionAnswers(e)) >= 1) =>
            LET c == ConditionAnswers(e)
                last == c[Len(c)][2]
            IN  /\ last = "fail" => ~Ended(e)
                /\ last = "ok" => Returned(e)
\* tests/test_parallele.py line 24: children = [a_func, b_func, failure_func]
TestChildren == <<"ok", "ok", "fail">>

\* Units of work of evaluation e in state st.
TasksIn(e, st) == {i \in 1..Len(tasks[e]) : tasks[e][i] = st}

\* Threshold semantics of parallele, common to C14 as stated and as amended.
ParallelSemantics(e) ==
    /\ IsSuccess(e) \/ IsFailure(e)
    /\ IsSuccess(e) <=> Cardinality(Succeeding) >= succes_threshold
    /\ IsFailure(e) <=> Cardinality(Failing) > N - succes_threshold
    /\ Failing = {} => IsSuccess(e)
    /\ (children = TestChildren /\ ~arg.given) => IsFailure(e)

RECURSIVE Alone(_, _, _, _)
Alone(i, s, f, rs) ==
    IF i >= N THEN ReturnValue(FAILURE)
    ELSE LET r == ResultOf(i + 1)
         IN  IF r.ok
               THEN IF s + 1 = succes_threshold
                      THEN ReturnList(Append(rs, r))
                      ELSE Alone(i + 1, s + 1, f, Append(rs, r))
               ELSE IF f + 1 = failure_threshold
                      THEN ReturnValue(r)
                      ELSE Alone(i + 1, s, f + 1, Append(rs, r))

\* C16: two evaluations of the same sequence node, one after the other or
\* interleaved at the awaits, keep their own counts and result list, and
\* each returns what it would return as the only evaluation of the node.
C16_EvaluationsIndependent ==
    \A e \in Evals :
        (name \in SeqNames /\ pc[e] # "idle") =>
            /\ results[e] = [j \in 1..Len(results[e]) |-> ResultOf(j)]
            /\ Len(results[e]) = IF pc[e] = "await" THEN idx[e] - 1 ELSE idx[e]
            /\ success[e] = Cardinality({j \in 1..Len(results[e]) : results[e][j].ok})
            /\ failure[e] = Cardinality({j \in 1..Len(results[e]) : ~results[e][j].ok})
            /\ pc[e] \in {"loop", "await", "done"}
            /\ Returned(e) => ret[e] = Alone(0, 0, 0, <<>>)

\* C16 witness: one evaluation returned a list of three results while the
\* other, started in between, is still awaiting its second child.
C16_Witness ==
    /\ name = "sequence"
    /\ Returned("e1")
    /\ Len(ret["e1"].list) = 3
    /\ pc["e2"] = "await"
    /\ idx["e2"] = 2
    /\ success["e2"] + failure["e2"] = 1
\* C17: for every children list and accepted threshold one of the two
\* thresholds triggers no later than the last child: the loop is never
\* exhausted and the 'return FAILURE' of line 61 is never reached.
C17_FallThroughUnreachable ==
    \A e \in Evals :
        (name \in SeqNames) =>
            /\ pc[e] = "loop" => idx[e] < N
            /\ Returned(e) =>
                 /\ ret[e] # ReturnValue(FAILURE)
                 /\ (success[e] = succes_threshold) # (failure[e] = failure_threshold)

\* C18: each time a sequence evaluation is about to start a child,
\* success + failure = len(results) = children already evaluated, with
\* success < succes_threshold and failure < failure_threshold; a call
\* evaluates at least min(succes_threshold, failure_threshold) children when
\* n >= 1, at most n, and none twice.
C18_LoopInvariant ==
    \A e \in Evals :
        (name \in SeqNames /\ pc[e] # "idle") =>
            /\ (pc[e] = "loop" /\ idx[e] < N) =>
                 /\ success[e] + failure[e] = Len(results[e])
                 /\ Len(results[e]) = idx[e]
                 /\ Len(started[e]) = idx[e]
                 /\ success[e] < succes_threshold
                 /\ failure[e] < failure_threshold
            /\ Len(started[e]) <= N
            /\ Cardinality(Range(started[e])) = Len(started[e])
            /\ (Returned(e) /\ N >= 1) =>
                 Len(started[e]) >= min(succes_threshold, failure_threshold)

\* C18 witness: after one success and one failure a sequence of three
\* children is about to start the third.
C18_Witness ==
    \E e \in Evals :
        /\ name = "sequence"
        /\ pc[e] = "loop"
        /\ N = 3
        /\ idx[e] = 2
        /\ success[e] = 1
        /\ failure[e] = 1

RepeatUntilStates == {"checking-condition", "running-child", "done"}

\* The last answer of the condition in evaluation e was not a Success.
LastCheckFailed(e) ==
    LET c == ConditionAnswers(e)
    IN  Len(c) >= 1 /\ c[Len(c)][2] # "ok"

====
